---- MODULE Spec2Model ----
(***************************************************************************)
(* The reactive core of vaporjs-poc and its frame-synced flushers.         *)
(*                                                                         *)
(* The repository holds several iterations of the same idea:               *)
(*   - the class-based core   (signal.ts 1-142: Effect, createSignal,      *)
(*     createEffect, createMemo, CURRENT_EFFECT);                          *)
(*   - the closure-based core (signal.ts 144-435: createSignal with subs   *)
(*     and effects, createEffect/runEffect, the stale-flag createMemo);    *)
(*   - the atoms (atom.ts, and the signal-shaped createAtom);              *)
(*   - three connectHoles: over atoms (flusher.ts 1-57), over              *)
(*     signal.subscribe (flusher.ts 59-113), over createEffect             *)
(*     (web/flusher.ts).                                                   *)
(*                                                                         *)
(* A scenario (scn) fixes which program is built: its signals, memos,      *)
(* effects and holes.  Every action is one top-level call of the API; the  *)
(* synchronous cascade it starts is computed by the operators below, which *)
(* follow the source line by line.                                         *)
(***************************************************************************)
EXTENDS Integers, Sequences, FiniteSets, TLC

\* The signals of the reactive graphs take the values 0..MaxVal.
MaxVal == 2
\* The signal bound to the holes takes the values 0..MaxCount.
MaxCount == 1
\* At most MaxHandle animation frames are requested.
MaxHandle == 2

Null == "null"
\* A deleted entry of a JS Set that an iteration in progress may still pass.
Empty == "empty"
\* The cached value of a memo before its first computation (`undefined`).
Undefined == -1

VARIABLES
  scn,             \* the program that was built
  value,           \* source -> current value (signals) / cached value (memos)
  subscribers,     \* source -> Set<Effect>, in insertion order
  deps,            \* effect -> Effect.deps (the subscriber sets it pushed)
  disposed,        \* effect -> Effect.disposed
  running,         \* effect -> Effect.running
  CURRENT_EFFECT,  \* the class-based tracking context
  subs,            \* source -> Set<Subscriber> of the closure-based signals
  effects,         \* source -> Set<EffectRunner> of the closure-based signals
  currentEffect,   \* the closure-based tracking context
  effectToSignals, \* runner -> the Set of signals it accessed (WeakMap)
  isDisposed,      \* effect -> createEffect's isDisposed
  previousSignals, \* effect -> createEffect's previousSignals
  isStale,         \* memo -> createMemo's isStale
  unsubscribeFns,  \* memo -> the signals its markStale callbacks sit on
  dirtyHoles,      \* connectHoles' Set<Hole>, in insertion order
  connections,     \* connectHoles' connections: what undoes each hole's subscription
  syncFrameId,     \* connectHoles' syncFrameId (0: undefined)
  frameQueue,      \* the handles of the animation-frame callbacks requested
  nextHandle,      \* the handle the next requestAnimationFrame returns
  textContent,     \* node -> its text
  attributes,      \* node -> the value of its bound attribute
  applied,         \* the target writes of the last top-level call, in order
  \* History, for stating the properties:
  disconnected,    \* disconnect() has been called
  pending,         \* the holes that were dirty when disconnect() was last called
  wroteAfter,      \* a signal's value was changed after disconnect()
  sinceFlush,      \* signal -> the values it was changed to since the last flush
                   \*           (the two most recent ones)
  loops,           \* the syncFrame() calls whose returned function was not called since
  diverged,        \* a top-level write never returns: its loop repeats itself
  cleanup,         \* effect -> createEffect's cleanup: the run that returned it (0: an earlier call's)
  cleanupLog,      \* the cleanups returned and invoked in the last top-level call, in order
  thrown,          \* the last top-level call ended by an exception thrown out of it
  untracked,       \* the reads <<effect, source>> of the last call made by a body while it was not the current effect
  reentered,       \* the effects whose body was started, in the last call, while a run of the same effect was in progress
  visited,         \* the effects the notification loop of the last top-level write called run() on, in order
  lastSeen,        \* for every effect and memo, the reads <<source, value>> of its most recent run
  log,             \* the body runs of the last top-level call, in start order
  last             \* the last top-level call

vars == <<scn, value, subscribers, deps, disposed, running, CURRENT_EFFECT,
          subs, effects, currentEffect, effectToSignals, isDisposed,
          previousSignals, isStale, unsubscribeFns, dirtyHoles, connections,
          syncFrameId, frameQueue, nextHandle, textContent, attributes, applied,
          disconnected, pending, wroteAfter, sinceFlush, loops, diverged, cleanup, cleanupLog, thrown, untracked, reentered, visited, lastSeen, log, last>>

Top(p) ==
  IF p \in {"web", "sub", "sigatom", "atom", "pingpong", "webx", "subx", "atomx",
           "nested", "late", "subw", "atomw"}
  THEN MaxCount
  ELSE MaxVal

----------------------------------------------------------------------------
(* The programs.                                                           *)

ClassScenarios == {"diamond", "branch", "doubled", "half", "web", "pingpong", "throws",
                   "failing", "webx", "nested", "late", "chain",
                   "feedback"}
ClosureScenarios == {"cbranch", "cmemo", "csub", "sub", "cself", "subx", "subw",
                     "cthrows"}
FlusherScenarios == {"web", "sub", "sigatom", "atom"}
\* The three connectHoles over a tree whose second hole has a getter that
\* throws while count is 1; these programs call only the setter and flush().
FaultyScenarios == {"webx", "subx", "atomx"}
\* The programs that call syncFrame() and have frames: the faulty createEffect
\* and subscribe versions among them.
FrameScenarios == {"web", "sub", "sigatom", "atom", "webx", "subx"}
\* The subscribe-based connectHoles over a tree whose second hole has a
\* getter that sets count to 0 before it returns the accessor; these programs
\* too call only the setter and flush().
WritingScenarios == {"subw", "atomw"}
Scenarios ==
  ClassScenarios \cup ClosureScenarios \cup FlusherScenarios
    \cup FaultyScenarios \cup WritingScenarios
AtomFlusher == {"atom", "atomx", "atomw"}
WebFlusher == {"web", "webx"}

Signals == {"S", "C", "X", "count", "Fping", "Fpong", "Q"}
Memos == {"A", "B", "doubled", "M", "M2"}
Sources == Signals \cup Memos
\* The holes of the rendered tree: a text node and an attribute, both bound
\* to count.
HoleList(p) ==
  CASE p = "atom" -> <<"h2">>
    [] p = "sigatom" -> <<"h1">>
    [] OTHER -> <<"h1", "h2">>
Holes == {"h1", "h2"}
Nodes == {"text", "el"}
HoleGetter(hole) == "count"
HoleNode(hole) == IF hole = "h1" THEN "text" ELSE "el"
HoleProp(hole) == IF hole = "h1" THEN Null ELSE "title"

\* The effects: the wrappers of the memos, the user's effect E, and the
\* effects connectHoles creates, one per hole.
\* ping and pong are two effects that read S on every other run, flip their
\* own flag and wake each other through Q.
\* F is a second user effect, created after E.
Effects == Memos \cup {"E", "F", "fx_h1", "fx_h2", "ping", "pong"}
\* Subscriber callbacks handed to subscribe: a memo's markStale wrapper, a user
\* callback that reads memo M when S changes, and the dirty-marking callbacks
\* of connectHoles.
Callbacks == {"stale_M", "cb_M", "dirty_h1", "dirty_h2"}
CbOwner(cb) ==
  CASE cb = "stale_M" -> "M"
    [] cb = "cb_M" -> "M"
    [] cb = "dirty_h1" -> "h1"
    [] cb = "dirty_h2" -> "h2"
CbSignal(cb) == "S"

\* Construction order of each program.
Program(p) ==
  CASE p = "diamond" -> <<"S", "A", "B", "E">>
    [] p = "branch"  -> <<"C", "X", "E">>
    [] p = "doubled" -> <<"count", "doubled", "E">>
    [] p = "half"    -> <<"S", "M", "E">>
    [] p = "pingpong" -> <<"S", "Fping", "Fpong", "Q", "ping", "pong">>
    [] p = "throws"  -> <<"C", "X", "E", "F">>
    [] p = "failing" -> <<"C", "E">>
    [] p = "nested"  -> <<"S", "C", "X", "F", "E">>
    [] p = "late"    -> <<"S", "X", "E", "F">>
    [] p = "chain"   -> <<"S", "M", "M2">>
    [] p = "feedback" -> <<"S", "M", "E">>
    [] p = "cbranch" -> <<"C", "X", "E">>
    [] p = "cmemo"   -> <<"S", "M", "E">>
    [] p = "csub"    -> <<"S", "M", "cb_M">>
    [] p = "cself"   -> <<"S", "E">>
    [] p = "cthrows" -> <<"S", "M", "E">>
    [] p \in FlusherScenarios \cup FaultyScenarios \cup WritingScenarios ->
         <<"count", "connect">>

Range(seq) == {seq[i] : i \in DOMAIN seq}

\* The body of a memo: the sources it reads, and what it returns.
MemoReads(m) ==
  CASE m = "A" -> <<"S">>
    [] m = "B" -> <<"S">>
    [] m = "doubled" -> <<"count">>
    [] m = "M" -> <<"S">>
    [] m = "M2" -> <<"M">>

MemoFn(m, v) ==
  CASE m = "A" -> v + 1
    [] m = "B" -> v * 2
    [] m = "doubled" -> v * 2
    [] m = "M" -> v \div 2
    [] m = "M2" -> v + 1

\* The body of an effect, as statements [op, a, b].
Stmt(op, a, b) == [op |-> op, a |-> a, b |-> b]

Body(p, e) ==
  CASE p = "diamond" -> <<Stmt("read", "A", Null), Stmt("read", "B", Null)>>
    [] p = "branch"  -> <<Stmt("readIf", "C", "X")>>
    [] p = "doubled" -> <<Stmt("read", "count", Null), Stmt("read", "doubled", Null)>>
    [] p = "half"    -> <<Stmt("read", "M", Null)>>
    [] p = "pingpong" ->
         LET flag == IF e = "ping" THEN "Fping" ELSE "Fpong"
         IN <<Stmt("read", "Q", Null), Stmt("readIf", flag, "S"),
              Stmt("toggle", flag, Null), Stmt("toggle", "Q", Null)>>
    [] p = "throws" ->
         IF e = "E"
         THEN <<Stmt("read", "C", Null), Stmt("throwIf", "C", 1),
                Stmt("read", "X", Null)>>
         ELSE <<Stmt("read", "C", Null)>>
    [] p = "failing" -> <<Stmt("read", "C", Null), Stmt("throwIf", "C", 0)>>
    [] p = "nested" ->
         IF e = "E"
         THEN <<Stmt("read", "S", Null), Stmt("toggle", "X", Null),
                Stmt("read", "C", Null)>>
         ELSE <<Stmt("read", "X", Null)>>
    [] p = "late" ->
         IF e = "E"
         THEN <<Stmt("read", "S", Null), Stmt("copy", "X", "S")>>
         ELSE <<Stmt("readIf", "X", "S")>>
    [] p = "feedback" -> <<Stmt("read", "M", Null), Stmt("toggle", "S", Null)>>
    [] p = "cbranch" -> <<Stmt("readIf", "C", "X")>>
    [] p = "cmemo"   -> <<Stmt("read", "M", Null)>>
    [] p = "cself"   -> <<Stmt("read", "S", Null), Stmt("bump", "S", Null)>>
    [] p = "cthrows" -> <<Stmt("read", "M", Null), Stmt("throwIf", "M", 1)>>
    [] p \in WebFlusher -> IF e = "fx_h1"
                    THEN <<Stmt("read", HoleGetter("h1"), Null), Stmt("dirty", "h1", Null)>>
                    ELSE <<Stmt("read", HoleGetter("h2"), Null), Stmt("dirty", "h2", Null)>>

\* The effects whose first run throws: createEffect does not return, and the
\* program has no dispose function for them.
ThrowsAtConstruction(p, e) == p = "failing" /\ e = "E"

\* The bodies that return a function: the cleanup of the run.
ReturnsCleanup(p, e) == p = "cself"

\* The equality predicate a signal or memo was created with.
SameParity(a, b) == (a % 2) = (b % 2)

equalFn(a, b) == a = b

isEqual(p, x, a, b) ==
  IF p = "branch" /\ x = "X" THEN SameParity(a, b) ELSE equalFn(a, b)

----------------------------------------------------------------------------
(* JS Set: insertion-ordered; an iteration in progress passes over deleted  *)
(* entries and reaches entries added meanwhile.                            *)

SetHas(set, e) == \E i \in DOMAIN set : set[i] = e

SetAdd(set, e) == IF SetHas(set, e) THEN set ELSE Append(set, e)

SetDelete(set, e) == [i \in DOMAIN set |-> IF set[i] = e THEN Empty ELSE set[i]]

Compact(set) == SelectSeq(set, LAMBDA e : e # Empty)

\* The subscription callback of connectHoles: mark the hole dirty.
\* A dirty set that takes a hole only while it is empty.
markDirty_IfEmpty(st, hole) ==
  IF Len(Compact(st.dirtyHoles)) # 0 THEN st
  ELSE [st EXCEPT !.dirtyHoles = SetAdd(@, hole)]

\* A callback that also overwrites the text targets.
markDirty_Write(st, hole) ==
  [st EXCEPT !.dirtyHoles = SetAdd(@, hole),
             !.textContent = [n \in DOMAIN @ |-> "dirty"]]

markDirty(st, hole) ==
  IF SetHas(st.dirtyHoles, hole) THEN st
  ELSE [st EXCEPT !.dirtyHoles = SetAdd(@, hole)]

----------------------------------------------------------------------------
(* The class-based core (signal.ts 1-142).                                 *)

\* The body of effect e starts executing: it is appended to the log, and it
\* is noted when a body of the same effect is on the call stack already.
Start(st, e) ==
  [st EXCEPT !.log = Append(@, [eff |-> e, reads |-> <<>>]),
             !.lastSeen[e] = {},
             !.active = @ \cup {e},
             !.reentered = IF e \in st.active THEN @ \cup {e} ELSE @]

\* Record a read of source x with value v in the run at position k of the log.
Observe(st, k, x, v) ==
  [st EXCEPT !.log[k].reads = Append(@, <<x, v>>),
             !.lastSeen[st.log[k].eff] = @ \cup {<<x, v>>}]

\* createSignal.accessor: register the current effect, then return value.
accessor(st, x) ==
  IF st.CURRENT_EFFECT # Null
  THEN LET effect == st.CURRENT_EFFECT
       IN [st EXCEPT !.subscribers[x] = SetAdd(@, effect),
                     !.deps[effect] = Append(@, x)]
  ELSE st

\* createMemo.accessor: the same registration on the memo's own subscribers.
memoAccessor(st, m) ==
  IF st.CURRENT_EFFECT # Null
  THEN [st EXCEPT !.subscribers[m] = SetAdd(@, st.CURRENT_EFFECT),
                  !.deps[st.CURRENT_EFFECT] = Append(@, m)]
  ELSE st

\* A read of source x by the body whose run is log entry k.
Read(st, k, x) ==
  LET s1 == IF x \in Memos THEN memoAccessor(st, x) ELSE accessor(st, x)
      s2 == IF st.CURRENT_EFFECT # st.log[k].eff
            THEN [s1 EXCEPT !.untracked = @ \cup {<<st.log[k].eff, x>>}]
            ELSE s1
  IN Observe(s2, k, x, s1.value[x])

\* Effect.run's finally block: remove stale deps.
removeStale(st, e, oldDeps) ==
  [st EXCEPT !.subscribers =
     [x \in DOMAIN @ |->
        IF x \in Range(oldDeps) /\ x \notin Range(st.deps[e])
        THEN SetDelete(@[x], e) ELSE @[x]]]

RECURSIVE run(_, _), callFn(_, _, _), exec(_, _, _, _), memoFn(_, _, _),
          memoReadAll(_, _, _, _), notify(_, _, _), write(_, _, _)

\* An Effect.run that removes the stale deps after the try block instead of
\* in its finally block.
run_NoFinally(st, e) ==
  IF st.disposed[e] THEN st
  ELSE IF st.running[e] THEN st
  ELSE LET oldDeps == st.deps[e]
           k == Len(st.log) + 1
           s1 == [Start(st, e) EXCEPT !.running[e] = TRUE,
                                      !.deps[e] = <<>>,
                                      !.CURRENT_EFFECT = e]
           s2 == callFn(s1, e, k)
           s3 == [s2 EXCEPT !.CURRENT_EFFECT = Null]
           s4 == IF s2.thrown THEN s3 ELSE removeStale(s3, e, oldDeps)
       IN [s4 EXCEPT !.running[e] = FALSE, !.active = st.active]

\* Effect.run. An exception in flight (thrown) leaves the try block at once;
\* the finally block runs all the same.
run(st, e) ==
  IF st.disposed[e] THEN st
  ELSE IF st.running[e] THEN st
  ELSE LET oldDeps == st.deps[e]
           k == Len(st.log) + 1
           s1 == [Start(st, e) EXCEPT !.running[e] = TRUE,
                                      !.deps[e] = <<>>,
                                      !.CURRENT_EFFECT = e]
           s2 == callFn(s1, e, k)
           s3 == [s2 EXCEPT !.CURRENT_EFFECT = Null]
           s4 == removeStale(s3, e, oldDeps)
       IN [s4 EXCEPT !.running[e] = FALSE, !.active = st.active]

\* this.fn(): the memo's wrapper or the user's body.
callFn(st, e, k) ==
  IF e \in Memos THEN memoFn(st, e, k) ELSE exec(st, e, k, 1)

\* The statements of a user body, from statement i on.
exec(st, e, k, i) ==
  IF st.thrown \/ i > Len(Body(st.scn, e)) THEN st
  ELSE LET s == Body(st.scn, e)[i]
           s1 == IF s.op \in {"read", "readIf"} THEN Read(st, k, s.a) ELSE st
       IN exec(CASE s.op = "read" -> s1
                 [] s.op = "readIf" ->
                      IF s1.value[s.a] # 0 THEN Read(s1, k, s.b) ELSE s1
                 [] s.op = "dirty" -> markDirty(st, s.a)
                 [] s.op = "throwIf" ->
                      IF st.value[s.a] = s.b THEN [st EXCEPT !.thrown = TRUE]
                      ELSE st
                 [] s.op \in {"toggle", "copy"} ->
                      write(st, s.a, [fn |-> FALSE,
                                      v |-> IF s.op = "copy" THEN st.value[s.b]
                                            ELSE IF st.value[s.a] = 0 THEN 1
                                            ELSE 0]),
               e, k, i + 1)

\* The reads of the memo's fn, in order.
memoReadAll(st, m, k, i) ==
  IF i > Len(MemoReads(m)) THEN st
  ELSE memoReadAll(Read(st, k, MemoReads(m)[i]), m, k, i + 1)

\* A memo wrapper that notifies whether or not the value changed.
memoFn_Unchecked(st, m, k) ==
  LET s1 == memoReadAll(st, m, k, 1)
      next == MemoFn(m, s1.value[MemoReads(m)[1]])
  IN notify([s1 EXCEPT !.value[m] = next], m, 1)

\* The Effect that wraps a memo computation (createMemo, lines 117-127).
memoFn(st, m, k) ==
  LET s1 == memoReadAll(st, m, k, 1)
      next == MemoFn(m, s1.value[MemoReads(m)[1]])
      changed == ~isEqual(st.scn, m, next, s1.value[m])
  IN IF ~changed THEN s1
     ELSE notify([s1 EXCEPT !.value[m] = next], m, 1)

\* Where a loop over subscribers[x] stands before entry i, when no effect is
\* running: all the core holds, with the Set being iterated split into the
\* entries passed and the entries to come. What happens next depends on
\* nothing else.
Configuration(st, x, i) ==
  LET n == Len(st.subscribers[x])
  IN <<x, st.value, st.deps, st.disposed,
       [y \in DOMAIN st.subscribers |->
          IF y = x THEN <<Compact(SubSeq(st.subscribers[x], 1, i - 1)),
                          Compact(SubSeq(st.subscribers[x], i, n))>>
          ELSE <<Compact(st.subscribers[y])>>]>>

\* for (const eff of subscribers) eff.run(), from entry i on. The loop of a
\* top-level write that comes back to a configuration it has been in goes
\* round forever: the evaluation stops there and records it. The effects
\* the loop of a top-level write runs are noted in visited.
notify(st, x, i) ==
  IF st.thrown \/ st.diverged \/ i > Len(st.subscribers[x]) THEN st
  ELSE LET eff == st.subscribers[x][i]
           top == \A e \in Effects : ~st.running[e]
           here == Configuration(st, x, i)
       IN notify(IF eff = Empty THEN st
                 ELSE IF top /\ here \in st.seen THEN [st EXCEPT !.diverged = TRUE]
                 ELSE run(IF top THEN [st EXCEPT !.seen = @ \cup {here},
                                                 !.visited = Append(@, eff)]
                                 ELSE st,
                          eff),
                 x, i + 1)

\* A setter argument: a plain value, or the updater prev => prev + 1 (which
\* wraps around at the top of the value range).
Setters(p) == [fn : {FALSE}, v : 0..Top(p)] \cup [fn : {TRUE}, v : {Top(p)}]

\* newValue instanceof Function ? newValue(value) : newValue
Resolve(setter, current) ==
  IF setter.fn THEN (IF current = setter.v THEN 0 ELSE current + 1) ELSE setter.v

\* A write that runs the subscribers before it stores the value.
write_NotifyFirst(st, s, newValue) ==
  LET nextValue == Resolve(newValue, st.value[s])
  IN IF isEqual(st.scn, s, nextValue, st.value[s]) THEN st
     ELSE [notify(st, s, 1) EXCEPT !.value[s] = nextValue]

\* A write without the equality check.
write_Unchecked(st, s, newValue) ==
  notify([st EXCEPT !.value[s] = Resolve(newValue, st.value[s])], s, 1)

\* A write that stores the value and runs no subscriber.
write_Silent(st, s, newValue) ==
  [st EXCEPT !.value[s] = Resolve(newValue, st.value[s])]

\* createSignal.write
write(st, s, newValue) ==
  LET nextValue == Resolve(newValue, st.value[s])
  IN IF isEqual(st.scn, s, nextValue, st.value[s]) THEN st
     ELSE notify([st EXCEPT !.value[s] = nextValue], s, 1)

\* Effect.dispose
dispose(st, e) ==
  IF st.disposed[e] THEN st
  ELSE LET s1 == [st EXCEPT !.disposed[e] = TRUE]
           s2 == [s1 EXCEPT !.subscribers =
                    [x \in DOMAIN @ |->
                       IF x \in Range(s1.deps[e]) THEN SetDelete(@[x], e) ELSE @[x]]]
       IN [s2 EXCEPT !.deps[e] = <<>>]

----------------------------------------------------------------------------
(* The closure-based core (signal.ts 144-435).                             *)

\* The tracking prologue shared by createSignal's and createMemo's accessor:
\* add the current runner to effects, and the signal to the runner's Set.
track(st, x) ==
  IF st.currentEffect # Null
  THEN LET ce == st.currentEffect
           signalSet == IF st.effectToSignals[ce].has
                        THEN st.effectToSignals[ce].set ELSE <<>>
       IN [st EXCEPT !.effects[x] = SetAdd(@, ce),
                     !.effectToSignals[ce] =
                        [has |-> TRUE, set |-> SetAdd(signalSet, x)]]
  ELSE st

\* createSignal's signal(): track, then return value.
signal(st, x) == track(st, x)

\* signal.subscribe(fn) with a function made for this call: it is in no Set
\* yet, so subs.add appends it.
subscribe(st, x, fn) == [st EXCEPT !.subs[x] = Append(@, fn)]

\* The function subscribe returned: subs.delete(fn).
unsubscribe(st, x, fn) == [st EXCEPT !.subs[x] = SetDelete(@, fn)]

\* createMemo.markStale
markStale(st, m) ==
  IF ~st.isStale[m] THEN [st EXCEPT !.isStale[m] = TRUE] ELSE st

MarkStaleOf(m) == "stale_" \o m

RECURSIVE unsubscribeAll(_, _, _), subscribeAll(_, _, _, _)

\* for (const unsubscribe of unsubscribeFns) unsubscribe()
unsubscribeAll(st, m, i) ==
  IF i > Len(st.unsubscribeFns[m]) THEN st
  ELSE unsubscribeAll(unsubscribe(st, st.unsubscribeFns[m][i], MarkStaleOf(m)),
                      m, i + 1)

\* for (const dep of accessedSignals) unsubscribeFns.push(dep.subscribe(...))
subscribeAll(st, m, accessed, i) ==
  IF i > Len(accessed) THEN st
  ELSE LET s1 == subscribe(st, accessed[i], MarkStaleOf(m))
       IN subscribeAll([s1 EXCEPT !.unsubscribeFns[m] = Append(@, accessed[i])],
                       m, accessed, i + 1)

\* The "store dependencies that were accessed" step of createMemo.
storeAccessed(st, m) ==
  IF ~st.thrown /\ st.effectToSignals[m].has
  THEN LET s1 == subscribeAll(st, m, st.effectToSignals[m].set, 1)
       IN [s1 EXCEPT !.effectToSignals[m].set = <<>>]
  ELSE st

RECURSIVE set(_, _, _), callSubs(_, _, _), callSub(_, _), callEffects(_, _, _),
          runEffect(_, _), cexec(_, _, _, _), cRead(_, _, _), memoSignal(_, _),
          recompute(_, _), cMemoReadAll(_, _, _, _)

\* A read of source x by the body whose run is log entry k.
cRead(st, k, x) ==
  LET s1 == IF x \in Memos THEN memoSignal(st, x) ELSE signal(st, x)
  IN Observe(s1, k, x, s1.value[x])

\* The statements of a user body, from statement i on.
cexec(st, e, k, i) ==
  IF st.thrown \/ i > Len(Body(st.scn, e)) THEN st
  ELSE LET s == Body(st.scn, e)[i]
           s1 == IF s.op \in {"read", "readIf"} THEN cRead(st, k, s.a) ELSE st
       IN cexec(CASE s.op = "read" -> s1
                  [] s.op = "readIf" ->
                       IF s1.value[s.a] # 0 THEN cRead(s1, k, s.b) ELSE s1
                  [] s.op = "bump" ->
                       IF st.value[s.a] = 1
                       THEN set(st, s.a, [fn |-> FALSE, v |-> 2])
                       ELSE st
                  [] s.op = "throwIf" ->
                       IF st.value[s.a] = s.b THEN [st EXCEPT !.thrown = TRUE]
                       ELSE st,
                e, k, i + 1)

\* if (cleanup) { cleanup(); cleanup = undefined; }
callCleanup(st, e) ==
  IF st.cleanup[e] # Undefined
  THEN [st EXCEPT !.cleanupLog =
                     Append(@, [ev |-> "invoked", eff |-> e, id |-> st.cleanup[e]]),
                  !.cleanup[e] = Undefined]
  ELSE st

\* const result = fn(); if (typeof result === "function") cleanup = result;
\* for the body whose run is log entry k, once its statements are done; not
\* reached when the body threw.
storeResult(st, e, k) ==
  IF ~st.thrown /\ ReturnsCleanup(st.scn, e)
  THEN [st EXCEPT !.cleanupLog =
                     Append(@, [ev |-> "returned", eff |-> e, id |-> k]),
                  !.cleanup[e] = k]
  ELSE st

\* The "store the signals that were accessed" step of runEffect's finally
\* block: previousSignals = new Set(accessedSignals); accessedSignals.clear().
storePrevious(st, e) ==
  IF st.effectToSignals[e].has
  THEN [st EXCEPT !.previousSignals[e] = st.effectToSignals[e].set,
                  !.effectToSignals[e].set = <<>>]
  ELSE st

\* A runEffect that does not look at isDisposed.
runEffect_Undisposed(st, e) ==
  LET k == Len(st.log) + 1
      prevEffect == st.currentEffect
      s1 == [Start(callCleanup(st, e), e)
               EXCEPT !.previousSignals[e] = <<>>,
                      !.currentEffect = e]
      s2 == storeResult(cexec(s1, e, k, 1), e, k)
  IN storePrevious([s2 EXCEPT !.currentEffect = prevEffect,
                              !.active = st.active], e)

\* createEffect.runEffect
runEffect(st, e) ==
  IF st.isDisposed[e] THEN st
  ELSE LET k == Len(st.log) + 1
           prevEffect == st.currentEffect
           s1 == [Start(callCleanup(st, e), e)
                    EXCEPT !.previousSignals[e] = <<>>,
                           !.currentEffect = e]
           s2 == storeResult(cexec(s1, e, k, 1), e, k)
       IN storePrevious([s2 EXCEPT !.currentEffect = prevEffect,
                                   !.active = st.active], e)

\* The reads of the memo's fn, in order.
cMemoReadAll(st, m, k, i) ==
  IF st.thrown \/ i > Len(MemoReads(m)) THEN st
  ELSE cMemoReadAll(cRead(st, k, MemoReads(m)[i]), m, k, i + 1)

\* value = fn() of a memo whose fn has just read its sources; isStale = false.
storeValue(st, m) ==
  IF st.thrown THEN st
  ELSE [st EXCEPT !.value[m] = MemoFn(m, st.value[MemoReads(m)[1]]),
                  !.isStale[m] = FALSE]

\* The end of the recompute block: store the new value, and notify when it
\* differs from the old one.
notifyIfChanged(st, m) ==
  IF st.thrown THEN st
  ELSE IF st.value[m] # MemoFn(m, st.value[MemoReads(m)[1]])
  THEN callEffects(callSubs(storeValue(st, m), m, 1), m, 1)
  ELSE storeValue(st, m)

\* A recompute block that restores currentEffect after the try block instead
\* of in its finally block.
recompute_NoRestore(st, m) ==
  LET prevEffect == st.currentEffect
      k == Len(st.log) + 1
      s1 == [unsubscribeAll(st, m, 1) EXCEPT !.unsubscribeFns[m] = <<>>,
                                             !.currentEffect = m,
                                             !.lastSeen[m] = {},
                                             !.log = Append(@, [eff |-> m, reads |-> <<>>])]
      s2 == notifyIfChanged(storeAccessed(cMemoReadAll(s1, m, k, 1), m), m)
  IN [s2 EXCEPT !.currentEffect = IF s2.thrown THEN @ ELSE prevEffect]

\* The "recompute if stale" block of createMemo's signal().
recompute(st, m) ==
  LET prevEffect == st.currentEffect
      k == Len(st.log) + 1
      s1 == [unsubscribeAll(st, m, 1) EXCEPT !.unsubscribeFns[m] = <<>>,
                                             !.currentEffect = m,
                                             !.lastSeen[m] = {},
                                             !.log = Append(@, [eff |-> m, reads |-> <<>>])]
      s2 == notifyIfChanged(storeAccessed(cMemoReadAll(s1, m, k, 1), m), m)
  IN [s2 EXCEPT !.currentEffect = prevEffect]

\* createMemo's signal(): track, recompute if stale, return value.
memoSignal(st, m) ==
  LET s1 == track(st, m)
  IN IF s1.isStale[m] THEN recompute(s1, m) ELSE s1

\* A subscriber callback: a memo's markStale wrapper, or the user's callback
\* that reads memo M.
callSub(st, fn) ==
  IF CbOwner(fn) \in Holes THEN markDirty(st, CbOwner(fn))
  ELSE IF fn = MarkStaleOf(CbOwner(fn)) THEN markStale(st, CbOwner(fn))
  ELSE memoSignal(st, CbOwner(fn))

\* for (const sub of subs) sub(newValue, oldValue), from entry i on.
callSubs(st, x, i) ==
  IF st.thrown \/ i > Len(st.subs[x]) THEN st
  ELSE LET fn == st.subs[x][i]
       IN callSubs(IF fn = Empty THEN st ELSE callSub(st, fn), x, i + 1)

\* for (const effect of effects) effect(), from entry i on: an effect's
\* runEffect, or a memo's signal() that registered itself while computing.
callEffects(st, x, i) ==
  IF st.thrown \/ i > Len(st.effects[x]) THEN st
  ELSE LET effect == st.effects[x][i]
       IN callEffects(IF effect \in Memos THEN memoSignal(st, effect)
                      ELSE runEffect(st, effect),
                      x, i + 1)

\* createSignal.set
set(st, s, setter) ==
  LET oldValue == st.value[s]
      newValue == Resolve(setter, st.value[s])
  IN IF oldValue = newValue THEN st
     ELSE callEffects(callSubs([st EXCEPT !.value[s] = newValue], s, 1), s, 1)

\* The initial computation of createMemo (value = fn(), then subscribe).
createMemo(st, m) ==
  LET prevEffect == st.currentEffect
      k == Len(st.log) + 1
      s1 == [st EXCEPT !.currentEffect = m,
                       !.lastSeen[m] = {},
                       !.log = Append(@, [eff |-> m, reads |-> <<>>])]
      s2 == storeAccessed(storeValue(cMemoReadAll(s1, m, k, 1), m), m)
  IN [s2 EXCEPT !.currentEffect = prevEffect]

\* A dispose function that calls cleanup and keeps holding it.
disposeEffect_KeepCleanup(st, e) ==
  LET s1 == IF st.cleanup[e] # Undefined
            THEN [st EXCEPT !.cleanupLog =
                    Append(@, [ev |-> "invoked", eff |-> e, id |-> st.cleanup[e]])]
            ELSE st
  IN [s1 EXCEPT !.isDisposed[e] = TRUE,
                !.previousSignals[e] = <<>>,
                !.effectToSignals[e] = [has |-> FALSE, set |-> <<>>]]

\* The dispose function createEffect returns.
disposeEffect(st, e) ==
  [callCleanup(st, e) EXCEPT !.isDisposed[e] = TRUE,
             !.previousSignals[e] = <<>>,
             !.effectToSignals[e] = [has |-> FALSE, set |-> <<>>]]

----------------------------------------------------------------------------
(* The atoms.                                                              *)

RECURSIVE callAtomSubs(_, _, _)

\* for (const sub of subs) sub(newValue, oldValue): the subscribers of an atom
\* are the dirty-marking callbacks of connectHoles.
callAtomSubs(st, x, i) ==
  IF i > Len(st.subs[x]) THEN st
  ELSE LET fn == st.subs[x][i]
       IN IF fn = Empty THEN callAtomSubs(st, x, i + 1)
          ELSE callAtomSubs(markDirty(st, CbOwner(fn)), x, i + 1)

\* createAtom.set of fluid-system/atom.ts
atomSet(st, a, setter) ==
  LET newValue == Resolve(setter, st.value[a])
  IN callAtomSubs([st EXCEPT !.value[a] = newValue], a, 1)

\* createAtom.set of the signal-shaped atom
signalAtomSet(st, a, setter) ==
  LET oldValue == st.value[a]
      newValue == Resolve(setter, st.value[a])
  IN IF oldValue = newValue THEN st
     ELSE callAtomSubs([st EXCEPT !.value[a] = newValue], a, 1)

----------------------------------------------------------------------------
(* The rendering target and the three connectHoles.                        *)

Digit(d) ==
  CASE d = 0 -> "0" [] d = 1 -> "1" [] d = 2 -> "2" [] d = 3 -> "3"
    [] d = 4 -> "4" [] d = 5 -> "5" [] d = 6 -> "6" [] d = 7 -> "7"
    [] d = 8 -> "8" [] d = 9 -> "9"

RECURSIVE String(_)

\* String(val) of a non-negative integer: its decimal digits.
String(n) == IF n < 10 THEN Digit(n) ELSE String(n \div 10) \o Digit(n % 10)

\* hole.prop ? setAttribute(hole.prop, text) : textContent = text
apply(st, hole, text) ==
  LET s1 == IF HoleProp(hole) # Null
            THEN [st EXCEPT !.attributes[HoleNode(hole)] = text]
            ELSE [st EXCEPT !.textContent[HoleNode(hole)] = text]
  IN [s1 EXCEPT !.applied = Append(@, <<hole, text>>)]

Size(xs) == Len(Compact(xs))

RECURSIVE atomFlushLoop(_, _), subFlushLoop(_, _), webFlushLoop(_, _)

\* hole.getter() throws: the second hole of the faulty trees, while count is 1.
GetterThrows(st, hole) ==
  st.scn \in FaultyScenarios /\ hole = "h2" /\ st.value[HoleGetter(hole)] = 1

\* hole.getter() of a hole whose getter writes: count is set to 0.
getter(st, hole) ==
  IF st.scn \in WritingScenarios /\ hole = "h2"
  THEN (IF st.scn \in AtomFlusher
        THEN atomSet(st, HoleGetter(hole), [fn |-> FALSE, v |-> 0])
        ELSE set(st, HoleGetter(hole), [fn |-> FALSE, v |-> 0]))
  ELSE st

\* Apply the value toValue(atom) returned.
applyValue(st, hole) == apply(st, hole, String(st.value[HoleGetter(hole)]))

\* The body of flush's loop for a hole of the atom version.
atomFlushHole(st, hole) ==
  IF GetterThrows(st, hole) THEN [st EXCEPT !.thrown = TRUE]
  ELSE applyValue(getter(st, hole), hole)

atomFlushLoop(st, i) ==
  IF st.thrown \/ i > Len(st.dirtyHoles) THEN st
  ELSE atomFlushLoop(IF st.dirtyHoles[i] = Empty THEN st
                     ELSE atomFlushHole(st, st.dirtyHoles[i]),
                     i + 1)

\* dirtyHoles.clear(), reached when the loop was not left by an exception.
clearDirty(st) == IF st.thrown THEN st ELSE [st EXCEPT !.dirtyHoles = <<>>]

\* flush of connectHoles over atoms (flusher.ts 20-35)
atomFlush(st) ==
  IF Size(st.dirtyHoles) = 0 THEN st
  ELSE clearDirty(atomFlushLoop(st, 1))

\* A loop body that applies the value and leaves the hole dirty.
applyAndDelete_Keep(st, hole) ==
  IF st.thrown THEN st
  ELSE apply(st, hole, String(st.value[HoleGetter(hole)]))

\* Apply the value the accessor returned and clear the hole's dirty flag.
applyAndDelete(st, hole) ==
  IF st.thrown THEN st
  ELSE [apply(st, hole, String(st.value[HoleGetter(hole)]))
          EXCEPT !.dirtyHoles = SetDelete(@, hole)]

\* signal(): the call of the accessor the getter returned.
callAccessor(st, hole) ==
  IF st.scn \in ClosureScenarios
  THEN (IF HoleGetter(hole) \in Memos
        THEN memoSignal(st, HoleGetter(hole))
        ELSE signal(st, HoleGetter(hole)))
  ELSE st

\* The body of flush's loop for a hole of the subscribe version.
subFlushHole(st, hole) ==
  IF GetterThrows(st, hole) THEN [st EXCEPT !.thrown = TRUE]
  ELSE applyAndDelete(callAccessor(getter(st, hole), hole), hole)

subFlushLoop(st, i) ==
  IF st.thrown \/ i > Len(st.dirtyHoles) THEN st
  ELSE subFlushLoop(IF st.dirtyHoles[i] = Empty THEN st
                    ELSE subFlushHole(st, st.dirtyHoles[i]),
                    i + 1)

\* flush of connectHoles over signal.subscribe (flusher.ts 75-91)
subFlush(st) ==
  IF Size(st.dirtyHoles) = 0 THEN st ELSE subFlushLoop(st, 1)

\* The body of flush's loop for a hole of the createEffect version.
webFlushHole(st, hole) ==
  IF GetterThrows(st, hole) THEN [st EXCEPT !.thrown = TRUE]
  ELSE applyAndDelete(IF HoleGetter(hole) \in Memos
                      THEN memoAccessor(st, HoleGetter(hole))
                      ELSE accessor(st, HoleGetter(hole)),
                      hole)

webFlushLoop(st, i) ==
  IF st.thrown \/ i > Len(st.dirtyHoles) THEN st
  ELSE webFlushLoop(IF st.dirtyHoles[i] = Empty THEN st
                    ELSE webFlushHole(st, st.dirtyHoles[i]),
                    i + 1)

\* flush of connectHoles over createEffect (web/flusher.ts 23-39)
webFlush(st) ==
  IF Size(st.dirtyHoles) = 0 THEN st ELSE webFlushLoop(st, 1)

\* A flush that empties the dirty set and writes nothing.
flush_Drop(st) == [st EXCEPT !.dirtyHoles = <<>>]

\* A flush that rewrites the first hole whether or not it is dirty.
flush_Rewrite(st) ==
  LET hole == HoleList(st.scn)[1]
  IN apply([st EXCEPT !.dirtyHoles = <<>>], hole,
           String(st.value[HoleGetter(hole)]))

\* Record in the log that connectHoles' function fn starts executing.
Enter(st, fn) == [st EXCEPT !.log = Append(@, [eff |-> fn, reads |-> <<>>])]

flush(st) ==
  LET s0 == Enter(st, "flush")
  IN CASE st.scn \in AtomFlusher -> atomFlush(s0)
       [] st.scn \in WebFlusher -> webFlush(s0)
       [] OTHER -> subFlush(s0)

DirtyOf(hole) == "dirty_" \o hole
EffectOf(hole) == "fx_" \o hole

RECURSIVE connectLoop(_, _), atomDisconnectLoop(_, _), subDisconnectLoop(_, _),
          webDisconnectLoop(_, _)

\* connectHoles(holes): subscribe every hole, keep what undoes it.
connectLoop(st, i) ==
  IF i > Len(HoleList(st.scn)) THEN st
  ELSE LET hole == HoleList(st.scn)[i]
           s1 == IF st.scn \in WebFlusher THEN run(st, EffectOf(hole))
                 ELSE subscribe(st, HoleGetter(hole), DirtyOf(hole))
       IN connectLoop([s1 EXCEPT !.connections = Append(@, hole)], i + 1)

connectHoles(st) == connectLoop(st, 1)

atomDisconnectLoop(st, i) ==
  IF i > Len(st.connections) THEN st
  ELSE LET hole == st.connections[i]
       IN atomDisconnectLoop(unsubscribe(st, HoleGetter(hole), DirtyOf(hole)),
                             i + 1)

\* disconnect of connectHoles over atoms (flusher.ts 37-42)
atomDisconnect(st) ==
  [atomDisconnectLoop(st, 1) EXCEPT !.connections = <<>>]

RemoveAt(seq, j) ==
  [i \in 1..(Len(seq) - 1) |-> IF i < j THEN seq[i] ELSE seq[i + 1]]

IndexOf(seq, e) == CHOOSE i \in DOMAIN seq : seq[i] = e

\* disconnect of connectHoles over signal.subscribe (flusher.ts 93-98): the
\* array iterator reads connections[i] of the array as the body left it.
subDisconnectLoop(st, i) ==
  IF i > Len(st.connections) THEN st
  ELSE LET hole == st.connections[i]
           s1 == unsubscribe(st, HoleGetter(hole), DirtyOf(hole))
           s2 == [s1 EXCEPT !.connections = RemoveAt(@, IndexOf(@, hole))]
       IN subDisconnectLoop(s2, i + 1)

subDisconnect(st) == subDisconnectLoop(st, 1)

webDisconnectLoop(st, i) ==
  IF i > Len(st.connections) THEN st
  ELSE webDisconnectLoop(dispose(st, EffectOf(st.connections[i])), i + 1)

\* disconnect of connectHoles over createEffect (web/flusher.ts 41-46)
webDisconnect(st) ==
  [webDisconnectLoop(st, 1) EXCEPT !.connections = <<>>]

disconnect(st) ==
  CASE st.scn \in AtomFlusher -> atomDisconnect(st)
    [] st.scn \in WebFlusher -> webDisconnect(st)
    [] OTHER -> subDisconnect(st)

\* requestAnimationFrame(callback): queue the callback, return its handle.
requestAnimationFrame(st) ==
  [st EXCEPT !.frameQueue = @ \cup {st.nextHandle},
             !.nextHandle = @ + 1]

\* cancelAnimationFrame(handle)
cancelAnimationFrame(st, handle) ==
  [st EXCEPT !.frameQueue = @ \ {handle}]

\* A syncFrame that flushes twice.
syncFrame_Twice(st) ==
  LET s1 == flush(flush(st))
      s2 == requestAnimationFrame(s1)
  IN [s2 EXCEPT !.syncFrameId = s1.nextHandle]

\* A syncFrame that does not request the next frame.
syncFrame_Once(st) == flush(st)

\* syncFrameId = requestAnimationFrame(syncFrame), not reached when flush
\* threw.
requestNext(st) ==
  IF st.thrown THEN st
  ELSE [requestAnimationFrame(st) EXCEPT !.syncFrameId = st.nextHandle]

\* syncFrame(): flush, then request the next frame.
syncFrame(st) == requestNext(flush(st))

\* The function syncFrame returns.
cancelFrame(st) ==
  IF st.syncFrameId # 0 THEN cancelAnimationFrame(st, st.syncFrameId) ELSE st

\* The display invokes the callback with handle h. An exception of one
\* callback is reported and does not keep the other callbacks of the frame
\* from running; thrown records that some callback of the frame threw.
callback(st, h) ==
  [syncFrame(Enter([st EXCEPT !.frameQueue = @ \ {h}, !.thrown = FALSE],
                   "callback"))
     EXCEPT !.thrown = @ \/ st.thrown]

RECURSIVE frameLoop(_, _)

\* One frame of the display: the callbacks requested before it run, in the
\* order they were requested.
frameLoop(st, due) ==
  IF due = {} THEN st
  ELSE LET h == CHOOSE x \in due : \A y \in due : x <= y
       IN IF h \in st.frameQueue
          THEN frameLoop(callback(st, h), due \ {h})
          ELSE frameLoop(st, due \ {h})

frame(st) == frameLoop(st, st.frameQueue)

----------------------------------------------------------------------------
(* Construction.                                                           *)

Blank(p) ==
  [scn |-> p,
   value |-> [x \in Sources |-> IF x \in Memos THEN Undefined ELSE 0],
   subscribers |-> [x \in Sources |-> <<>>],
   deps |-> [e \in Effects |-> <<>>],
   disposed |-> [e \in Effects |-> FALSE],
   running |-> [e \in Effects |-> FALSE],
   CURRENT_EFFECT |-> Null,
   subs |-> [x \in Sources |-> <<>>],
   effects |-> [x \in Sources |-> <<>>],
   currentEffect |-> Null,
   effectToSignals |-> [e \in Effects |-> [has |-> FALSE, set |-> <<>>]],
   isDisposed |-> [e \in Effects |-> FALSE],
   previousSignals |-> [e \in Effects |-> <<>>],
   isStale |-> [m \in Memos |-> TRUE],
   unsubscribeFns |-> [m \in Memos |-> <<>>],
   dirtyHoles |-> <<>>,
   connections |-> <<>>,
   syncFrameId |-> 0,
   frameQueue |-> {},
   nextHandle |-> 1,
   textContent |-> [n \in Nodes |-> ""],
   attributes |-> [n \in Nodes |-> ""],
   applied |-> <<>>,
   disconnected |-> FALSE,
   pending |-> {},
   wroteAfter |-> FALSE,
   sinceFlush |-> [x \in Signals |-> <<>>],
   loops |-> 0,
   diverged |-> FALSE,
   seen |-> {},
   active |-> {},
   cleanup |-> [e \in Effects |-> Undefined],
   cleanupLog |-> <<>>,
   thrown |-> FALSE,
   untracked |-> {},
   reentered |-> {},
   visited |-> <<>>,
   lastSeen |-> [e \in Effects |-> {}],
   log |-> <<>>]

RECURSIVE render(_, _)

\* jsx(): every hole's node shows String(staticValue) of its accessor.
render(st, i) ==
  IF i > Len(HoleList(st.scn)) THEN st
  ELSE LET hole == HoleList(st.scn)[i]
           text == String(st.value[HoleGetter(hole)])
       IN render(IF HoleProp(hole) # Null
                 THEN [st EXCEPT !.attributes[HoleNode(hole)] = text]
                 ELSE [st EXCEPT !.textContent[HoleNode(hole)] = text],
                 i + 1)

RECURSIVE construct(_, _)

\* Create the entities of the program in order; new Effect(fn) runs once.
construct(st, i) ==
  IF i > Len(Program(st.scn)) THEN st
  ELSE LET x == Program(st.scn)[i]
       IN IF x \in Signals THEN construct(st, i + 1)
          ELSE IF x = "connect" THEN construct(connectHoles(render(st, 1)), i + 1)
          ELSE IF st.scn \in ClassScenarios THEN construct(run(st, x), i + 1)
          ELSE IF x \in Memos THEN construct(createMemo(st, x), i + 1)
          ELSE IF x \in Callbacks
               THEN construct(subscribe(st, CbSignal(x), x), i + 1)
          ELSE construct(runEffect(st, x), i + 1)

\* The handles in use: those queued, and the one syncFrameId holds.
Handles(st) ==
  st.frameQueue \cup (IF st.syncFrameId # 0 THEN {st.syncFrameId} ELSE {})

\* A handle is an opaque number: only which handles are equal and the order
\* they were issued in matter, so a handle is kept as its rank among those
\* in use.
Rank(st, h) == Cardinality({g \in Handles(st) : g <= h})

\* No iteration is in progress between top-level calls: deleted entries are gone.
Settle(st) ==
  [st EXCEPT !.subscribers = [x \in DOMAIN @ |-> Compact(@[x])],
             !.subs = [x \in DOMAIN @ |-> Compact(@[x])],
             !.dirtyHoles = Compact(@),
             !.frameQueue = {Rank(st, h) : h \in @},
             !.syncFrameId = IF @ = 0 THEN 0 ELSE Rank(st, @),
             !.nextHandle = Cardinality(Handles(st)) + 1]

\* The state a top-level call starts in: the logs of the call are empty.
State ==
  [scn |-> scn, value |-> value, subscribers |-> subscribers, deps |-> deps,
   disposed |-> disposed, running |-> running,
   CURRENT_EFFECT |-> CURRENT_EFFECT,
   subs |-> subs, effects |-> effects, currentEffect |-> currentEffect,
   effectToSignals |-> effectToSignals, isDisposed |-> isDisposed,
   previousSignals |-> previousSignals, isStale |-> isStale,
   unsubscribeFns |-> unsubscribeFns, dirtyHoles |-> dirtyHoles,
   connections |-> connections, syncFrameId |-> syncFrameId,
   frameQueue |-> frameQueue, nextHandle |-> nextHandle,
   textContent |-> textContent, attributes |-> attributes, applied |-> <<>>,
   disconnected |-> disconnected, pending |-> pending,
   wroteAfter |-> wroteAfter, sinceFlush |-> sinceFlush,
   loops |-> loops,
   diverged |-> diverged, seen |-> {}, active |-> {},
   cleanup |-> [e \in Effects |-> IF cleanup[e] = Undefined THEN Undefined ELSE 0],
   cleanupLog |-> <<>>,
   thrown |-> FALSE,
   untracked |-> {},
   reentered |-> {},
   visited |-> <<>>,
   lastSeen |-> lastSeen,
   log |-> <<>>]

Holds(s) ==
  /\ scn = s.scn
  /\ value = s.value
  /\ subscribers = s.subscribers
  /\ deps = s.deps
  /\ disposed = s.disposed
  /\ running = s.running
  /\ CURRENT_EFFECT = s.CURRENT_EFFECT
  /\ subs = s.subs
  /\ effects = s.effects
  /\ currentEffect = s.currentEffect
  /\ effectToSignals = s.effectToSignals
  /\ isDisposed = s.isDisposed
  /\ previousSignals = s.previousSignals
  /\ isStale = s.isStale
  /\ unsubscribeFns = s.unsubscribeFns
  /\ dirtyHoles = s.dirtyHoles
  /\ connections = s.connections
  /\ syncFrameId = s.syncFrameId
  /\ frameQueue = s.frameQueue
  /\ nextHandle = s.nextHandle
  /\ textContent = s.textContent
  /\ attributes = s.attributes
  /\ applied = s.applied
  /\ disconnected = s.disconnected
  /\ pending = s.pending
  /\ wroteAfter = s.wroteAfter
  /\ sinceFlush = s.sinceFlush
  /\ loops = s.loops
  /\ diverged = s.diverged
  /\ cleanup = s.cleanup
  /\ cleanupLog = s.cleanupLog
  /\ thrown = s.thrown
  /\ untracked = s.untracked
  /\ reentered = s.reentered
  /\ visited = s.visited
  /\ lastSeen = s.lastSeen
  /\ log = s.log

Commit(st, call) ==
  LET s == Settle(st)
  IN
        /\ scn' = s.scn
     /\ value' = s.value
     /\ subscribers' = s.subscribers
     /\ deps' = s.deps
     /\ disposed' = s.disposed
     /\ running' = s.running
     /\ CURRENT_EFFECT' = s.CURRENT_EFFECT
     /\ subs' = s.subs
     /\ effects' = s.effects
     /\ currentEffect' = s.currentEffect
     /\ effectToSignals' = s.effectToSignals
     /\ isDisposed' = s.isDisposed
     /\ previousSignals' = s.previousSignals
     /\ isStale' = s.isStale
     /\ unsubscribeFns' = s.unsubscribeFns
     /\ dirtyHoles' = s.dirtyHoles
     /\ connections' = s.connections
     /\ syncFrameId' = s.syncFrameId
     /\ frameQueue' = s.frameQueue
     /\ nextHandle' = s.nextHandle
     /\ textContent' = s.textContent
     /\ attributes' = s.attributes
     /\ applied' = s.applied
     /\ disconnected' = s.disconnected
     /\ pending' = s.pending
     /\ wroteAfter' = s.wroteAfter
     /\ sinceFlush' = s.sinceFlush
     /\ loops' = s.loops
     /\ diverged' = s.diverged
     /\ cleanup' = s.cleanup
     /\ cleanupLog' = s.cleanupLog
     /\ thrown' = s.thrown
     /\ untracked' = s.untracked
     /\ reentered' = s.reentered
     /\ visited' = s.visited
     /\ lastSeen' = s.lastSeen
     /\ log' = s.log
     /\ last' = call

\* The call, with what the properties need of the state it started in.
Call(op, a, b) ==
  [op |-> op, a |-> a, b |-> b, n |-> 0, v |-> Undefined]

\* A call that flushes, with the changes of count it finds: how many (up to
\* two) and the last one.
FlushCall(op) ==
  LET w == sinceFlush["count"]
  IN [op |-> op, a |-> Null, b |-> Null, n |-> Len(w),
      v |-> IF w = <<>> THEN Undefined ELSE w[Len(w)]]

Init ==
  /\ \E p \in Scenarios : Holds(Settle(construct(Blank(p), 1)))
  /\ last = Call("construct", Null, Null)

----------------------------------------------------------------------------
(* The top-level calls.                                                    *)

\* History of a write to the signal of a hole: the value it changed to.
Wrote(st, s, old) ==
  IF st.value[s] # old /\ st.scn \in FlusherScenarios
  THEN [st EXCEPT !.sinceFlush[s] = IF @ = <<>> THEN <<st.value[s]>>
                                    ELSE <<@[Len(@)], st.value[s]>>,
                  !.wroteAfter = @ \/ st.disconnected]
  ELSE st

\* History of a flush.
Flushed(st) == [st EXCEPT !.sinceFlush = [x \in Signals |-> <<>>]]

ProgramSignals == Range(Program(scn)) \cap Signals

\* A top-level write of a class-based signal of the program.
Write ==
  /\ scn \in ClassScenarios
  /\ ~diverged
  /\ \E s \in ProgramSignals, newValue \in Setters(scn) :
       Commit(Wrote(write(State, s, newValue), s, value[s]),
              Call("write", s, Resolve(newValue, value[s])))

\* A top-level dispose of the user's effect.
Dispose ==
  /\ scn \in ClassScenarios
  /\ "E" \in Range(Program(scn))
  /\ ~ThrowsAtConstruction(scn, "E")
  /\ Commit(dispose(State, "E"), Call("dispose", "E", Null))

\* A top-level set of a closure-based signal of the program.
Set ==
  /\ scn \in ClosureScenarios
  /\ \E s \in ProgramSignals, setter \in Setters(scn) :
       Commit(Wrote(set(State, s, setter), s, value[s]),
              Call("set", s, Resolve(setter, value[s])))

\* A top-level read of a memo of the program, outside any computation.
ReadMemo ==
  /\ scn \in ClosureScenarios
  /\ \E m \in Range(Program(scn)) \cap Memos :
       Commit(memoSignal(State, m), Call("read", m, Null))

\* A top-level call of the dispose function of the user's effect.
DisposeEffect ==
  /\ scn \in ClosureScenarios
  /\ "E" \in Range(Program(scn))
  /\ Commit(disposeEffect(State, "E"), Call("dispose", "E", Null))

\* A top-level set of an atom of fluid-system/atom.ts.
AtomSet ==
  /\ scn \in AtomFlusher
  /\ \E a \in ProgramSignals, setter \in Setters(scn) :
       Commit(Wrote(atomSet(State, a, setter), a, value[a]),
              Call("set", a, Resolve(setter, value[a])))

\* A top-level set of a signal-shaped atom.
SignalAtomSet ==
  /\ scn = "sigatom"
  /\ \E a \in ProgramSignals, setter \in Setters(scn) :
       Commit(Wrote(signalAtomSet(State, a, setter), a, value[a]),
              Call("set", a, Resolve(setter, value[a])))

\* A call of flush().
Flush ==
  /\ scn \in FlusherScenarios \cup FaultyScenarios \cup WritingScenarios
  /\ Commit(Flushed(flush(State)), FlushCall("flush"))

\* History of a syncFrame() call, kept for the programs in which no flush
\* throws: one more loop was started.
Started(st) ==
  IF st.scn \in FlusherScenarios THEN [st EXCEPT !.loops = @ + 1] ELSE st

\* A call of syncFrame(): it starts a frame loop.
SyncFrame ==
  /\ scn \in FrameScenarios
  /\ nextHandle <= MaxHandle
  /\ Commit(Flushed(Started(syncFrame(State))), FlushCall("syncFrame"))

\* The display refreshes: the requested callbacks run.
Frame ==
  /\ scn \in FrameScenarios
  /\ frameQueue # {}
  /\ Commit(Flushed(frame(State)), FlushCall("frame"))

\* A call of the function syncFrame returned.
Cancel ==
  /\ scn \in FrameScenarios
  /\ syncFrameId # 0
  /\ Commit([cancelFrame(State) EXCEPT !.loops = IF @ > 0 THEN @ - 1 ELSE 0],
            Call("cancel", Null, Null))

\* A call of disconnect().
Disconnect ==
  /\ scn \in FlusherScenarios
  /\ Commit([disconnect(State) EXCEPT !.disconnected = TRUE,
                                      !.pending = Range(dirtyHoles)],
            Call("disconnect", Null, Null))

Next ==
  \/ Write \/ Dispose
  \/ Set \/ ReadMemo \/ DisposeEffect
  \/ AtomSet \/ SignalAtomSet
  \/ Flush \/ SyncFrame \/ Frame \/ Cancel \/ Disconnect

Spec == Init /\ [][Next]_vars

----------------------------------------------------------------------------

TypeOK ==
  /\ scn \in Scenarios
  /\ CURRENT_EFFECT \in Effects \cup {Null}
  /\ currentEffect \in Effects \cup {Null}

----------------------------------------------------------------------------
(* What a call did, read from the state after it.                          *)

\* The positions of the log at which body e ran during the last call.
RunsOf(e) == {i \in DOMAIN log : log[i].eff = e}

\* The values the run at position i of the log read from source x.
Seen(i, x) == {r[2] : r \in {q \in Range(log[i].reads) : q[1] = x}}

\* The texts the last call wrote to the target of a hole, in order.
AppliedTo(hole) == SelectSeq(applied, LAMBDA w : w[1] = hole)

\* What the target of a hole shows.
Shown(hole) ==
  IF HoleProp(hole) # Null THEN attributes[HoleNode(hole)]
  ELSE textContent[HoleNode(hole)]

FlushOps == {"flush", "syncFrame", "frame"}

WriteOps == {"write", "set"}

\* Everything the program itself holds: all but the histories.
ProgramState ==
  <<value, subscribers, deps, disposed, running, CURRENT_EFFECT, subs, effects,
    currentEffect, effectToSignals, isDisposed, previousSignals, isStale,
    unsubscribeFns, dirtyHoles, connections, syncFrameId, frameQueue,
    nextHandle, textContent, attributes>>

----------------------------------------------------------------------------
(* The claims.                                                             *)

\* C1: when count was changed N >= 1 times since the last flush and the holes
\* are connected, a flush (called directly, by syncFrame or by a frame tick)
\* writes to the target of each connected hole exactly once, and what it
\* writes is the text of the last value written.
C1_Coalescing ==
  (/\ scn \in {"sub", "sigatom", "web"}
   /\ last.op \in FlushOps
   /\ ~disconnected
   /\ last.n >= 1)
  => \A hole \in Range(HoleList(scn)) :
       /\ AppliedTo(hole) = <<(<<hole, String(last.v)>>)>>
       /\ Shown(hole) = String(last.v)

\* C1's case: a frame tick that found two changes of count since the last
\* flush and wrote to the target.
C1_Witness ==
  /\ scn \in {"sub", "web"}
  /\ last.op = "frame"
  /\ ~disconnected
  /\ last.n = 2
  /\ applied # <<>>

\* C2: in the diamond (E reads memos A and B, both computed from S), a write
\* that changes S runs E exactly once, and every run of E sees values of A
\* and B computed from the new S.
C2_GlitchFree ==
  (scn = "diamond" /\ last.op = "write" /\ log # <<>>)
  => /\ Cardinality(RunsOf("E")) = 1
     /\ \A i \in RunsOf("E") :
          /\ Seen(i, "A") = {MemoFn("A", value["S"])}
          /\ Seen(i, "B") = {MemoFn("B", value["S"])}

\* The sources the most recent run of E read, as the core recorded them.
LastRunRead ==
  IF scn \in ClassScenarios THEN Range(deps["E"])
  ELSE Range(previousSignals["E"])

\* C3: a write to X after a run of E that took the branch without X does
\* not run E.
C3_Pruning ==
  [][(/\ scn \in {"branch", "cbranch"}
      /\ last'.op \in WriteOps
      /\ last'.a = "X"
      /\ "X" \notin LastRunRead)
     => RunsOf("E")' = {}]_vars

\* C4: a write of a value equal to the current one, by the signal's equality,
\* changes nothing: the value stays, no body runs, no subscriber is called
\* and no hole gets dirty.
C4_EqualitySuppression ==
  [][(/\ scn \notin AtomFlusher
      /\ last'.op \in WriteOps
      /\ isEqual(scn, last'.a, last'.b, value[last'.a]))
     => /\ ProgramState' = ProgramState
        /\ log' = <<>>
        /\ applied' = <<>>]_vars

\* C4's case: X holds 0, its equality is parity, and a write of 2 was
\* dropped while E was subscribed to X.
C4_Witness ==
  /\ scn = "branch"
  /\ last.op = "write"
  /\ last.a = "X"
  /\ last.b = 2
  /\ value["X"] = 0
  /\ SetHas(subscribers["X"], "E")
  /\ log = <<>>

\* C5: once disconnect() has returned and a signal of a connected hole has
\* been written, no call changes what any target shows: not the write, and
\* no flush or frame tick after it.
C5_DisconnectFinal ==
  [][(scn \in {"web", "atom"} /\ disconnected /\ wroteAfter')
     => (textContent' = textContent /\ attributes' = attributes)]_vars

\* C6: after disconnect() of the subscribe-based connectHoles, writes add
\* nothing to the dirty set: it holds only holes that were dirty at the
\* disconnect.
C6_AllUnsubscribed ==
  (scn \in {"sub", "sigatom"} /\ disconnected)
  => Range(Compact(dirtyHoles)) \subseteq pending

\* C7: a hole that was dirty when disconnect() was called is not written to
\* its target by a later frame tick.
C7_NoPendingFlush ==
  (scn \in {"web", "sub", "sigatom"} /\ disconnected /\ last.op = "frame")
  => \A i \in DOMAIN applied : applied[i][1] \notin pending

\* C8: with doubled = createMemo(() => count() * 2) and an effect reading
\* count and doubled, a write that changes count runs the effect exactly
\* once, and the run sees doubled = 2 * count.
C8_OncePerWrite ==
  (scn = "doubled" /\ last.op = "write" /\ log # <<>>)
  => /\ Cardinality(RunsOf("E")) = 1
     /\ \A i \in RunsOf("E") :
          /\ Seen(i, "count") = {value["count"]}
          /\ Seen(i, "doubled") = {2 * value["count"]}

\* C9: reads of memo M with no change of S between them invoke its body at
\* most once: a call, which changes S at most once and before any read,
\* invokes the body at most once.
C9_MemoIdempotent ==
  scn \in {"half", "cmemo", "csub"} => Cardinality(RunsOf("M")) <= 1

\* C10: when memo M recomputes to the value it already had, its subscriber E
\* does not run.
C10_ChangeSuppression ==
  [][(/\ scn \in {"half", "cmemo"}
      /\ RunsOf("M")' # {}
      /\ value'["M"] = value["M"])
     => RunsOf("E")' = {}]_vars

\* C10's case: S went from 0 to 1, M recomputed to 0 again, and E, which is
\* subscribed to M, did not run.
C10_Witness ==
  /\ scn \in {"half", "cmemo"}
  /\ last.op \in WriteOps
  /\ value["S"] = 1
  /\ value["M"] = 0
  /\ RunsOf("M") # {}
  /\ RunsOf("E") = {}
  /\ (IF scn = "half" THEN SetHas(subscribers["M"], "E")
      ELSE SetHas(effects["M"], "E"))

\* C11: after a flush (direct, by syncFrame or by a frame tick) while the
\* holes are connected, the target of every hole shows the text of the
\* current value of its signal; and a flush that follows a flush, with no
\* write between them, writes no target.
C11_TargetsCurrent ==
  /\ [](( /\ scn \in {"sub", "sigatom", "web"}
          /\ last.op \in FlushOps
          /\ ~disconnected)
        => \A hole \in Range(HoleList(scn)) :
             Shown(hole) = String(value[HoleGetter(hole)]))
  /\ [][( /\ scn \in {"sub", "sigatom", "web"}
          /\ last.op \in FlushOps
          /\ last'.op \in FlushOps
          /\ ~disconnected)
        => (applied' = <<>> /\ textContent' = textContent
                            /\ attributes' = attributes)]_vars

\* C11's case: count was changed twice before a frame tick, the last time
\* to 1, and after the tick the targets show "1".
C11_Witness ==
  /\ scn \in {"sub", "sigatom", "web"}
  /\ last.op = "frame"
  /\ ~disconnected
  /\ last.n = 2
  /\ value["count"] = 1
  /\ \A hole \in Range(HoleList(scn)) : Shown(hole) = "1"

\* C15: flush() called while the dirty set is empty writes no target and
\* changes nothing the connection holds: dirty set, connections, frame queue.
C15_FlushQuiescence ==
  [][( /\ scn \in {"sub", "sigatom", "web"}
       /\ last'.op = "flush"
       /\ Size(dirtyHoles) = 0)
     => (ProgramState' = ProgramState /\ applied' = <<>>)]_vars

\* C15's case: flush() was called with nothing dirty while a frame loop was
\* running.
C15_Witness ==
  /\ scn \in {"sub", "sigatom", "web"}
  /\ last.op = "flush"
  /\ applied = <<>>
  /\ Size(dirtyHoles) = 0
  /\ frameQueue # {}

\* The user's effect E has been disposed.
Disposed(e) ==
  IF scn \in ClassScenarios THEN disposed[e] ELSE isDisposed[e]

\* C17: after dispose() of effect E, no write to any signal starts E's body.
C17_DisposalTerminal ==
  (last.op \in WriteOps /\ Disposed("E")) => RunsOf("E") = {}

\* C17's case: E was disposed, then a write changed a signal E had read and
\* other bodies ran.
C17_Witness ==
  /\ scn \in {"doubled", "cmemo"}
  /\ last.op \in WriteOps
  /\ Disposed("E")
  /\ log # <<>>

\* The flush executions of the last call that started under the frame
\* callback invoked at position i of the log: after it and before the next
\* callback.
FlushesUnder(i) ==
  {j \in RunsOf("flush") :
     /\ j > i
     /\ \A k \in RunsOf("callback") : ~(i < k /\ k < j)}

\* C12: every invocation of the frame callback executes flush at most once,
\* and a frame executes flush only under a callback, whatever syncFrame()
\* calls, cancellations and writes came before.
C12_OneFlushPerCallback ==
  (scn \in {"sub", "sigatom", "web"} /\ last.op = "frame")
  => /\ \A i \in RunsOf("callback") : Cardinality(FlushesUnder(i)) <= 1
     /\ \A j \in RunsOf("flush") : \E i \in RunsOf("callback") : i < j

\* C12's case: two frame loops were started, and a frame invoked both
\* callbacks, each of which executed flush once.
C12_Witness ==
  /\ scn \in {"sub", "web"}
  /\ last.op = "frame"
  /\ Cardinality(RunsOf("callback")) = 2
  /\ Cardinality(RunsOf("flush")) = 2

\* C13: once the function returned by every syncFrame() call has been
\* called, no frame executes flush.
C13_Cancellation ==
  (scn \in {"web", "atom"} /\ last.op = "frame" /\ loops = 0)
  => RunsOf("flush") = {}

\* C14: while a frame loop was started and not cancelled and the holes are
\* connected, a frame callback is scheduled, and at the end of a frame every
\* target shows the text of the current value of its signal.
C14_BoundedResponse ==
  (scn \in {"sub", "sigatom", "web"} /\ ~disconnected /\ loops > 0)
  => /\ frameQueue # {}
     /\ last.op = "frame"
        => \A hole \in Range(HoleList(scn)) :
             /\ Shown(hole) = String(value[HoleGetter(hole)])
             /\ hole \notin Range(dirtyHoles)

\* C14's case: in the effect-based connectHoles, count changed while a frame
\* loop was running, and the next frame wrote the new value to the targets.
C14_Witness ==
  /\ scn = "web"
  /\ ~disconnected
  /\ loops = 1
  /\ last.op = "frame"
  /\ last.n = 1
  /\ Len(applied) = 2

\* The signals some body of the program writes.
BodyWrites(p) ==
  {s \in Signals :
     \E e \in (Range(Program(p)) \cap Effects) \ Memos :
       \E i \in DOMAIN Body(p, e) :
         Body(p, e)[i].op \in {"toggle", "copy"} /\ Body(p, e)[i].a = s}

\* C16: a read returns the last committed write. After a write of a signal
\* that only top-level calls write, the signal holds the value written (or,
\* when the write was dropped as equal, the value it had), and every body
\* run during the write that read the signal saw that value; the bodies run
\* at construction saw the initial value.
C16_ReadsLastWrite ==
  /\ [](last.op = "construct"
        => \A i \in DOMAIN log :
             \A x \in Signals \ BodyWrites(scn) : Seen(i, x) \subseteq {0})
  /\ [][( /\ scn \in ClassScenarios
          /\ last'.op = "write"
          /\ last'.a \notin BodyWrites(scn)
          /\ ~diverged')
        => LET a == last'.a
           IN /\ value'[a] = IF isEqual(scn, a, last'.b, value[a])
                             THEN value[a] ELSE last'.b
              /\ \A i \in DOMAIN log' :
                   \A r \in Range(log'[i].reads) :
                     r[1] = a => r[2] = value'[a]]_vars

\* C16's case: S was written 2 over another value and the memos A and B,
\* run by the write, read 2.
C16_Witness ==
  /\ scn = "diamond"
  /\ last.op = "write"
  /\ last.b = 2
  /\ value["S"] = 2
  /\ \E i \in RunsOf("A") : Seen(i, "S") = {2}
  /\ \E i \in RunsOf("B") : Seen(i, "S") = {2}

\* C19: every top-level write of the class-based core returns: its loop over
\* the subscribers never comes back to a configuration it has been in.
C19_WriteTerminates ==
  scn \in ClassScenarios => ~diverged

----------------------------------------------------------------------------
\* How often the last call invoked the cleanup that run id of effect e returned.
TimesInvoked(e, id) ==
  Cardinality({i \in DOMAIN cleanupLog :
                 cleanupLog[i] = [ev |-> "invoked", eff |-> e, id |-> id]})

\* C18: every cleanup a run of a closure-based effect returned is either still
\* held by the effect, to be invoked before its next run or at disposal, or
\* was invoked exactly once; none is dropped without being invoked, also when
\* the effect is triggered again while its own run is in progress.
C18_PerRunCleanup ==
  \A i \in DOMAIN cleanupLog :
     cleanupLog[i].ev = "returned" =>
       LET e == cleanupLog[i].eff
           id == cleanupLog[i].id
       IN TimesInvoked(e, id) + (IF cleanup[e] = id THEN 1 ELSE 0) = 1

----------------------------------------------------------------------------
\* The run (an entry of a call's log) reached a throw statement of its body
\* with the condition of the throw true.
Threw(p, r) ==
  /\ r.eff \in Effects \ Memos
  /\ r.eff \in Range(Program(p))
  /\ \E i \in DOMAIN Body(p, r.eff) :
        /\ Body(p, r.eff)[i].op = "throwIf"
        /\ <<Body(p, r.eff)[i].a, Body(p, r.eff)[i].b>> \in Range(r.reads)

\* The sources a run read.
ReadBy(r) == {r.reads[j][1] : j \in DOMAIN r.reads}

\* C20: when a body throws in a re-run that a write of a class-based signal
\* triggered, the exception leaves the write, and after the write the effect
\* is subscribed to no source it was subscribed to before the write and did
\* not read in the failed run.
C20_ThrowPropagates ==
  /\ []((scn \in ClassScenarios /\ last.op = "write"
         /\ \E i \in DOMAIN log : Threw(scn, log[i])) => thrown)
  /\ [][\A i \in DOMAIN log' :
          (scn \in ClassScenarios /\ last'.op = "write" /\ Threw(scn, log'[i]))
          => \A x \in Sources :
               (SetHas(subscribers[x], log'[i].eff) /\ x \notin ReadBy(log'[i]))
               => ~SetHas(subscribers'[x], log'[i].eff)]_vars

\* A write made E throw after it read C, and E, subscribed to X since its
\* construction, is no longer a subscriber of X; F, after E among the
\* subscribers of C, did not run.
C20_Witness ==
  /\ scn = "throws"
  /\ last.op = "write"
  /\ thrown
  /\ RunsOf("E") # {}
  /\ RunsOf("F") = {}
  /\ SetHas(subscribers["C"], "E")
  /\ ~SetHas(subscribers["X"], "E")

----------------------------------------------------------------------------
\* C21: a class-based effect whose body threw in its construction run is in
\* no subscriber set, also not that of a signal it read before it threw, and
\* no later write runs its body.
C21_FailedConstruction ==
  \A e \in Effects \ Memos :
     ThrowsAtConstruction(scn, e)
     => /\ \A x \in Sources : ~SetHas(subscribers[x], e)
        /\ (last.op = "write" => RunsOf(e) = {})

----------------------------------------------------------------------------
\* The getter of a dirty hole throws in the state flush() is called in.
FailingHoles ==
  {hole \in Holes : SetHas(dirtyHoles, hole) /\ GetterThrows(State, hole)}

\* C22: when the getter of a dirty hole throws during flush(), the exception
\* leaves flush() and the hole is still in the dirty set, so that the next
\* flush() comes to it again; for the three connectHoles.
C22_FailingHoleStaysDirty ==
  [][(last'.op = "flush" /\ FailingHoles # {})
     => /\ thrown'
        /\ \A hole \in FailingHoles : SetHas(dirtyHoles', hole)]_vars

\* A flush() that wrote the first hole, was left by the exception of the
\* second hole's getter, and left the second hole dirty.
C22_Witness ==
  /\ scn \in FaultyScenarios
  /\ last.op = "flush"
  /\ thrown
  /\ AppliedTo("h1") # <<>>
  /\ AppliedTo("h2") = <<>>
  /\ SetHas(dirtyHoles, "h2")

----------------------------------------------------------------------------
\* C23: dispose() of an effect that is already disposed (class-based
\* Effect.dispose and the closure-based dispose function) and disconnect() of
\* the createEffect-based connectHoles after an earlier disconnect() throw
\* nothing and change nothing: no subscriber set, not the dirty set, and no
\* cleanup is invoked again. (The subscribe-based disconnect of flusher.ts
\* 93-98 is not among them: its first call leaves subscriptions behind.)
C23_IdempotentTeardown ==
  [][(\/ last'.op = "dispose" /\ Disposed("E")
      \/ last'.op = "disconnect" /\ scn \in WebFlusher /\ disconnected)
     => /\ ProgramState' = ProgramState
        /\ cleanupLog' = <<>>
        /\ \A e \in Effects : (cleanup'[e] = Undefined) <=> (cleanup[e] = Undefined)
        /\ ~thrown']_vars

\* A second call of the dispose function of an effect that returns a cleanup:
\* the first call invoked the cleanup of the last run, this one invoked none.
C23_Witness ==
  /\ scn = "cself"
  /\ last.op = "dispose"
  /\ isDisposed["E"]
  /\ cleanup["E"] = Undefined
  /\ cleanupLog = <<>>

----------------------------------------------------------------------------
\* The last run of effect e in the last call.
LastRun(e) == CHOOSE i \in RunsOf(e) : \A j \in RunsOf(e) : j <= i

\* The sources whose subscriber set holds effect e.
SubscribedTo(e) == {x \in Sources : SetHas(subscribers[x], e)}

\* C24: after each run of a class-based effect or memo wrapper, the sources
\* whose subscriber set holds it are exactly the sources its body read in
\* that run, also when the body wrote a signal before it read.
C24_ExactSubscriptions ==
  (scn \in ClassScenarios /\ ~diverged)
  => \A e \in Effects :
       RunsOf(e) # {} => SubscribedTo(e) = ReadBy(log[LastRun(e)])

\* C25: while a run of a class-based effect is in progress, and after a run
\* of another effect began and ended inside it, the effect is the current
\* computation whenever its body reads: no read of a body is made while
\* another effect, or none, is current.
C25_ContextRestored ==
  scn \in ClassScenarios => untracked = {}

----------------------------------------------------------------------------
\* C26: whenever no run is in progress (between top-level calls, also after
\* a call that a body's exception ended) the current computation of either
\* core is empty; so a read outside any computation (a top-level read of a
\* memo, the accessor calls of flush) registers no subscriber.
C26_ContextCleared ==
  /\ [](CURRENT_EFFECT = Null /\ currentEffect = Null)
  /\ [][last'.op = "read" => effects' = effects]_vars
  /\ [][(scn \in WebFlusher /\ last'.op = "flush")
        => subscribers' = subscribers]_vars

\* A set ended by the exception of the closure-based effect E, which ran
\* under the recomputation of memo M; no computation is current.
C26_Witness ==
  /\ scn = "cthrows"
  /\ last.op = "set"
  /\ thrown
  /\ RunsOf("M") # {}
  /\ RunsOf("E") # {}
  /\ currentEffect = Null

----------------------------------------------------------------------------
\* C27: once dispose() of an effect has returned, the effect is a member of
\* no subscriber set: not of the subscribers of a class-based signal or
\* memo, not of the effects of a closure-based one.
C27_DisposedInNoSet ==
  Disposed("E")
  => \A x \in Sources : ~SetHas(subscribers[x], "E") /\ ~SetHas(effects[x], "E")

----------------------------------------------------------------------------
\* C28: a trigger of an effect that arrives while a run of the same effect is
\* in progress is ignored: no body starts while a body of the same effect is
\* executing, for the class-based Effect.run and the closure-based runEffect.
C28_NoReentrantRun ==
  reentered = {}

\* C29: the notification loop of one write runs no computation more than
\* once, and runs only computations that were subscribed to the signal when
\* the write began.
C29_SnapshotNotification ==
  [][(scn = "late" /\ last'.op = "write")
     => /\ \A i, j \in DOMAIN visited' : visited'[i] = visited'[j] => i = j
        /\ \A i \in DOMAIN visited' : SetHas(subscribers[last'.a], visited'[i])]_vars

\* C30: with memo M derived from signal S and memo M2 whose body reads only
\* M, the computation of M2 is in the subscriber set of M and not in that of
\* S, and a write to S that leaves the value of M equal does not run the body
\* of M2.
C30_ChainedMemos ==
  /\ [](scn = "chain"
        => /\ SetHas(subscribers["M"], "M2")
           /\ ~SetHas(subscribers["S"], "M2"))
  /\ [][(/\ scn = "chain"
          /\ last'.op = "write"
          /\ last'.a = "S"
          /\ value'["M"] = value["M"])
        => RunsOf("M2")' = {}]_vars

\* C30's case: a write took S from 0 to 1, the body of M ran and returned 0
\* again, and the body of M2, subscribed to M, did not run.
C30_Witness ==
  /\ scn = "chain"
  /\ last.op = "write"
  /\ value["S"] = 1
  /\ value["M"] = 0
  /\ value["M2"] = 1
  /\ RunsOf("M") # {}
  /\ RunsOf("M2") = {}
  /\ SetHas(subscribers["M"], "M2")

----------------------------------------------------------------------------
\* C31: when a top-level write of a class-based signal stores a value that is
\* not equal to the current one, returns, and no body throws, the body of
\* every non-disposed effect that was subscribed to the signal when the write
\* began has run at least once during the write.
C31_SubscriberRuns ==
  [][(/\ scn \in ClassScenarios
      /\ last'.op = "write"
      /\ ~isEqual(scn, last'.a, last'.b, value[last'.a])
      /\ ~thrown'
      /\ ~diverged')
     => \A e \in Effects :
          (SetHas(subscribers[last'.a], e) /\ ~disposed[e]) => RunsOf(e)' # {}]_vars

\* C31's case: E, which reads S in every run, was subscribed to S, a write
\* changed S and returned, and the body of E ran.
C31_Witness ==
  /\ scn = "late"
  /\ last.op = "write"
  /\ last.a = "S"
  /\ ~thrown
  /\ ~disposed["E"]
  /\ SetHas(subscribers["S"], "E")
  /\ RunsOf("E") # {}

----------------------------------------------------------------------------
\* C32: a signal write, with the dirty-marking it triggers, changes no hole
\* target; targets change only in calls that execute flush (flush(),
\* syncFrame() and frame ticks).
C32_TargetsOnlyInFlush ==
  [][(scn \in FlusherScenarios \cup FaultyScenarios /\ last'.op \notin FlushOps)
     => /\ textContent' = textContent
        /\ attributes' = attributes
        /\ applied' = <<>>]_vars

\* C32's case: a write took count to 1 and dirtied the holes, and the targets
\* still show "0".
C32_Witness ==
  /\ scn \in {"web", "sub"}
  /\ last.op \in WriteOps
  /\ ~disconnected
  /\ value["count"] = 1
  /\ \A hole \in Range(HoleList(scn)) :
        SetHas(dirtyHoles, hole) /\ Shown(hole) = "0"

----------------------------------------------------------------------------
\* C33: in the effect-based connectHoles every hole in the dirty set has had
\* the value of its signal change since the last flush, or since connect: in
\* particular the dirty set is empty right after connect.
C33_DirtyMeansChanged ==
  scn = "web"
  => \A hole \in Range(HoleList(scn)) :
       SetHas(dirtyHoles, hole) => sinceFlush[HoleGetter(hole)] # <<>>

----------------------------------------------------------------------------
\* C34: after every call that executed flush and returned normally the dirty
\* set is empty, also when a getter called during the flush dirtied the
\* hole being flushed or another hole.
C34_DirtyEmptyAfterFlush ==
  (last.op \in FlushOps /\ ~thrown) => dirtyHoles = <<>>

\* C34's case: during a flush of the subscribe version the getter of the
\* second hole set count, which dirtied the first hole again after it had
\* been flushed; the flush wrote the first hole a second time and returned
\* with the dirty set empty.
C34_Witness ==
  /\ scn = "subw"
  /\ last.op = "flush"
  /\ ~thrown
  /\ Len(AppliedTo("h1")) = 2
  /\ AppliedTo("h2") # <<>>
  /\ dirtyHoles = <<>>

----------------------------------------------------------------------------
\* C35: a set of an atom of fluid-system/atom.ts whose resolved value equals
\* the current value notifies no subscriber: it dirties no hole bound to the
\* atom.
C35_AtomEqualSetNoop ==
  [][(/\ scn \in AtomFlusher
      /\ last'.op = "set"
      /\ last'.b = value[last'.a])
     => dirtyHoles' = dirtyHoles]_vars

----------------------------------------------------------------------------
\* C36: after a top-level write of the class-based core has returned without
\* error, the most recent run of every non-disposed effect read, of every
\* signal it read, the value the signal holds now.
C36_QuiescentConsistency ==
  (scn = "nested" /\ last.op = "write" /\ ~thrown /\ ~diverged)
  => \A e \in Effects \ Memos :
       ~disposed[e] =>
         \A r \in lastSeen[e] : r[1] \in Signals => r[2] = value[r[1]]

----------------------------------------------------------------------------
\* C37: after a top-level write of the class-based core has returned without
\* error, the cached value of every memo equals its body evaluated on the
\* current value of its dependency, also when a subscriber of the memo writes
\* the dependency while the memo notifies it.
C37_MemoFresh ==
  (scn \in ClassScenarios /\ last.op = "write" /\ ~thrown /\ ~diverged)
  => \A m \in Range(Program(scn)) \cap Memos :
       value[m] = MemoFn(m, value[MemoReads(m)[1]])

----------------------------------------------------------------------------
\* C38: in the class-based core, whenever no computation is running, an
\* effect is in the subscriber set of a signal or memo exactly when that set
\* is in the deps list of the effect, after any writes, runs, throwing bodies
\* and disposals.
C38_TwoWayConsistency ==
  (scn \in ClassScenarios /\ ~diverged)
  => \A e \in Effects : \A x \in Sources :
       SetHas(subscribers[x], e) <=> x \in Range(deps[e])

\* C38's case: a write made the body of E throw after it read C and before
\* it read X; E is subscribed to C alone and its deps list holds C alone.
C38_Witness ==
  /\ scn = "throws"
  /\ last.op = "write"
  /\ thrown
  /\ SetHas(subscribers["C"], "E")
  /\ ~SetHas(subscribers["X"], "E")
  /\ deps["E"] = <<"C">>

----------------------------------------------------------------------------
\* C39: when flush throws in a callback of a frame, the frame loop is still
\* scheduled: every callback the frame invoked has requested the next frame,
\* so as many callbacks are queued after the frame as before it.
C39_LoopSurvivesThrow ==
  [][(scn \in FaultyScenarios /\ last'.op = "frame" /\ thrown')
     => Cardinality(frameQueue') = Cardinality(frameQueue)]_vars

====
